---- MODULE Spec2Model ----
(***************************************************************************)
(* Model of the bulk contact import of apps/web/modules/ee/contacts/lib/   *)
(* contacts.ts (createContactsFromCSV) over a relational store with the    *)
(* tables Contact, ContactAttribute and ContactAttributeKey, together with *)
(* the cached read getContacts and deleteContact of the same file.         *)
(*                                                                         *)
(* Every store round-trip (an awaited prisma call) is one atomic action;   *)
(* the synchronous code between two awaits belongs to the action of the    *)
(* await that precedes it.                                                 *)
(*                                                                         *)
(* Two components of the survey editor are modelled beside it, each with   *)
(* its own specification: AdvancedLogicEditorActions (the edits of the     *)
(* action list of a logic item) and InputCombobox (its event handlers and  *)
(* the onChangeValue calls they make).                                     *)
(***************************************************************************)
EXTENDS Integers, Sequences, FiniteSets, TLC

\* ------------------------------------------------------------------ bounds
MaxBatch == 2       \* records per csvData
MaxCalls == 2       \* createContactsFromCSV calls started in one behaviour
MaxConcCalls == 3   \* calls started in one behaviour in which calls overlap
MaxConcBatch == 1   \* records per csvData when a call overlaps with another call, a read or a delete
MaxDeletes == 1     \* deleteContact calls in one behaviour

\* ------------------------------------------------------------------ inputs
Envs == {"env1", "env2"}
DuplicateActions == {"skip", "update", "overwrite"}

\* Column order of a CSV row (Object.keys / Object.entries order).
KeyOrder == <<"email", "userId", "plan">>

\* The rows a csvData may hold: Record<string, string>, some without an
\* email, some with an empty string as a value.
Records ==
  { [email |-> "a", plan |-> "free"],
    [email |-> "a", userId |-> "u1", plan |-> "pro"],
    [email |-> "b", userId |-> "u1"],
    [email |-> "b", userId |-> ""],
    [userId |-> "u1", plan |-> "pro"],
    [email |-> "", plan |-> "free"] }

RECURSIVE SeqsUpTo(_, _)
SeqsUpTo(S, n) ==
  IF n = 0 THEN {<<>>}
  ELSE LET shorter == SeqsUpTo(S, n - 1)
       IN  shorter \cup {Append(q, x) : q \in {p \in shorter : Len(p) = n - 1}, x \in S}

Batches(n) == SeqsUpTo(Records, n) \ {<<>>}

Slots == {1, 2}
NoContact == 0
NoError == [type |-> "none"]
NoEntry == [cached |-> FALSE, contacts |-> {}]

\* ------------------------------------------------------------------- state
VARIABLES
  contacts,              \* table Contact: rows [id, environmentId]
  contactAttributes,     \* table ContactAttribute: rows [contactId, attributeKeyId, value]
  contactAttributeKeys,  \* table ContactAttributeKey: rows [id, key, environmentId]
  nextContactId,         \* the next fresh Contact id
  nextKeyId,             \* the next fresh ContactAttributeKey id
  call,                  \* per slot: the locals of one createContactsFromCSV call
  started,               \* calls started so far
  cacheStore,            \* the entries of cache(), by tag (environment id)
  deletes,               \* deleteContact calls so far
  editor,                \* AdvancedLogicEditorActions: props and the last updateQuestion call
  combobox               \* InputCombobox: props, state and the last event's onChangeValue calls

store == <<contacts, contactAttributes, contactAttributeKeys, nextContactId, nextKeyId>>
cacheVars == <<cacheStore, deletes>>
uiVars == <<editor, combobox>>
contactVars == <<contacts, contactAttributes, contactAttributeKeys, nextContactId, nextKeyId,
                 call, started, cacheStore, deletes>>
vars == <<contacts, contactAttributes, contactAttributeKeys, nextContactId, nextKeyId,
          call, started, cacheStore, deletes, editor, combobox>>

\* ----------------------------------------------------------------- helpers
Range(f) == {f[x] : x \in DOMAIN f}

\* Boolean(v) of a possibly missing string: a missing and an empty value are falsy.
Truthy(record, key) == key \in DOMAIN record /\ record[key] /= ""

\* Object.entries(record)
Entries(record) == {<<k, record[k]>> : k \in DOMAIN record}

\* The keys of S in column order.
InOrder(S) == SelectSeq(KeyOrder, LAMBDA k : k \in S)

\* The snapshot of the three tables.
Tables == [contacts |-> contacts, contactAttributes |-> contactAttributes,
           contactAttributeKeys |-> contactAttributeKeys]

KeyRow(keys, id) == CHOOSE k \in keys : k.id = id

\* select attributes { value, attributeKey { key } } of one contact, as (key, value) pairs
AttributesOf(attrs, keys, contactId) ==
  {<<KeyRow(keys, a.attributeKeyId).key, a.value>> : a \in {x \in attrs : x.contactId = contactId}}

\* Extract unique emails and userIds from CSV data
csvEmails(csvData) == {csvData[i].email : i \in {j \in DOMAIN csvData : Truthy(csvData[j], "email")}}
csvUserIds(csvData) == {csvData[i].userId : i \in {j \in DOMAIN csvData : Truthy(csvData[j], "userId")}}

\* Identify the columns of the CSV data
csvKeys(csvData) == UNION {DOMAIN csvData[i] : i \in DOMAIN csvData}

\* prisma.contact.findMany where environmentId and some attribute with key
\* "email" has a value in emails: the ids of the contacts found.
existingContactsByEmail(environmentId, emails) ==
  {c.id : c \in {x \in contacts :
      /\ x.environmentId = environmentId
      /\ \E a \in contactAttributes :
           /\ a.contactId = x.id
           /\ KeyRow(contactAttributeKeys, a.attributeKeyId).key = "email"
           /\ a.value \in emails}}

\* The email attribute of a contact found (attributes.find(key === "email")).
EmailOf(contactId) ==
  LET vs == {p[2] : p \in {q \in AttributesOf(contactAttributes, contactAttributeKeys, contactId) :
                             q[1] = "email"}}
  IN  CHOOSE v \in vs : TRUE

\* The maps forEach(emailToContactMap.set) can build: when several contacts
\* found carry one email, the row the store returns last wins, and the store
\* promises no order.
emailToContactMaps(found) ==
  LET emails == {EmailOf(c) : c \in found}
  IN  {m \in [emails -> found] : \A e \in emails : EmailOf(m[e]) = e}

\* The userId lookup with a misspelt key name: it finds nothing.
existingUserIdsWrongKey(environmentId, userIds) ==
  {a.value : a \in {x \in contactAttributes :
      /\ x.value \in userIds
      /\ LET k == KeyRow(contactAttributeKeys, x.attributeKeyId)
         IN  k.key = "userid" /\ k.environmentId = environmentId}}

\* prisma.contactAttribute.findMany where attributeKey { key: "userId",
\* environmentId } and value in userIds: the values found.
existingUserIds(environmentId, userIds) ==
  {a.value : a \in {x \in contactAttributes :
      /\ x.value \in userIds
      /\ LET k == KeyRow(contactAttributeKeys, x.attributeKeyId)
         IN  k.key = "userId" /\ k.environmentId = environmentId}}

\* prisma.contactAttributeKey.findMany where environmentId: key -> id
existingAttributeKeys(environmentId) ==
  LET rows == {k \in contactAttributeKeys : k.environmentId = environmentId}
      names == {k.key : k \in rows}
  IN  [n \in names |-> (CHOOSE k \in rows : k.key = n).id]

\* prisma.contactAttributeKey.createMany without the duplicate check: one row
\* per key of data, whatever the table holds.
createManyAlways(data, environmentId) ==
  LET order == InOrder(data)
  IN  {[id |-> nextKeyId + i - 1, key |-> order[i], environmentId |-> environmentId] :
         i \in 1..Len(order)}

\* prisma.contactAttributeKey.createMany({data, skipDuplicates: true}): the
\* rows inserted; a key the environment already defines is skipped.
createMany(data, environmentId) ==
  LET defined == {k.key : k \in {x \in contactAttributeKeys : x.environmentId = environmentId}}
      order == InOrder(data \ defined)
  IN  {[id |-> nextKeyId + i - 1, key |-> order[i], environmentId |-> environmentId] :
         i \in 1..Len(order)}

\* ------------------------------------------------------------ call locals
IdleCall ==
  [pc |-> "idle", csvData |-> <<>>, environmentId |-> "env1",
   duplicateContactsAction |-> "skip", emailToContactMap |-> <<>>,
   attributeKeyMap |-> <<>>, missingKeys |-> {}, results |-> <<>>,
   createdContacts |-> <<>>, error |-> NoError, before |-> <<>>, touched |-> {},
   late |-> {}, rerun |-> FALSE]

Settled(c) == \A i \in DOMAIN c.results : c.results[i].pc \in {"null", "done", "failed"}

\* The head of the callback without the email check of line 330.
DispatchedNoEmailCheck(record, emailToContactMap, duplicateContactsAction) ==
  IF Truthy(record, "email") /\ record.email \in DOMAIN emailToContactMap
  THEN CASE duplicateContactsAction = "skip" -> [pc |-> "null", contact |-> NoContact]
         [] duplicateContactsAction = "update" ->
              [pc |-> "update", contact |-> emailToContactMap[record.email]]
         [] duplicateContactsAction = "overwrite" ->
              [pc |-> "deleteMany", contact |-> emailToContactMap[record.email]]
  ELSE [pc |-> "create", contact |-> NoContact]

\* The head of the callback with case "skip" falling through to case "update".
DispatchedSkipFallsThrough(record, emailToContactMap, duplicateContactsAction) ==
  IF ~Truthy(record, "email") THEN [pc |-> "null", contact |-> NoContact]
  ELSE IF record.email \in DOMAIN emailToContactMap
       THEN CASE duplicateContactsAction \in {"skip", "update"} ->
                   [pc |-> "update", contact |-> emailToContactMap[record.email]]
              [] duplicateContactsAction = "overwrite" ->
                   [pc |-> "deleteMany", contact |-> emailToContactMap[record.email]]
       ELSE [pc |-> "create", contact |-> NoContact]

\* The synchronous head of the callback of csvData.map for one record: a
\* record without email and a skipped duplicate resolve to null at once, the
\* others are left at their first store call.
Dispatched(record, emailToContactMap, duplicateContactsAction) ==
  IF ~Truthy(record, "email") THEN [pc |-> "null", contact |-> NoContact]
  ELSE IF record.email \in DOMAIN emailToContactMap
       THEN CASE duplicateContactsAction = "skip" -> [pc |-> "null", contact |-> NoContact]
              [] duplicateContactsAction = "update" ->
                   [pc |-> "update", contact |-> emailToContactMap[record.email]]
              [] duplicateContactsAction = "overwrite" ->
                   [pc |-> "deleteMany", contact |-> emailToContactMap[record.email]]
       ELSE [pc |-> "create", contact |-> NoContact]

contactPromises(c) ==
  [i \in DOMAIN c.csvData |->
     Dispatched(c.csvData[i], c.emailToContactMap, c.duplicateContactsAction)]

\* The results without the filter: a null stays in the returned sequence.
AggregateUnfiltered(results) == [i \in DOMAIN results |-> results[i].contact]

\* results.filter((contact) => contact !== null), as contact ids
Aggregate(results) ==
  LET kept == SelectSeq([i \in DOMAIN results |-> results[i]], LAMBDA r : r.pc /= "null")
  IN  [i \in DOMAIN kept |-> kept[i].contact]

\* ------------------------------------------- AdvancedLogicEditorActions state
\* No updateQuestion call is waiting to reach the component.
NoUpdate == [called |-> FALSE, logic |-> <<>>]

NoOperation == [operation |-> "none", logicIdx |-> 0, actionIdx |-> 0]

\* The component as first rendered: question.logic holds two logic items,
\* with one action and with two; cuids are numbered, the next fresh one is
\* nextCuid.
EditorMounted ==
  [logic |-> << [actions |-> << [id |-> 1, objective |-> "requireAnswer", target |-> "q2"] >>],
                [actions |-> << [id |-> 2, objective |-> "jumpToQuestion", target |-> "q3"],
                                [id |-> 3, objective |-> "requireAnswer", target |-> ""] >>] >>,
   updated |-> NoUpdate,
   last |-> NoOperation,
   nextCuid |-> 4,
   edits |-> 0]

\* ---------------------------------------------------------- InputCombobox state
\* The values of type TComboboxOption | TComboboxOption[] | string | number |
\* null that localValue, the value prop and onChangeValue carry, tagged by
\* their JavaScript type; an option is identified by its value.
Null == [kind |-> "null", str |-> "", num |-> 0, items |-> <<>>]
Str(s) == [kind |-> "string", str |-> s, num |-> 0, items |-> <<>>]
Num(n) == [kind |-> "number", str |-> "", num |-> n, items |-> <<>>]
Option(o) == [kind |-> "option", str |-> o, num |-> 0, items |-> <<>>]
Arr(seq) == [kind |-> "array", str |-> "", num |-> 0, items |-> seq]

\* The options prop, in the order given.
Options == <<"o1", "o2">>

\* The props a combobox is mounted with (inputType is inputProps.type).
ComboboxProps ==
  [allowMultiSelect : BOOLEAN, withInput : BOOLEAN, clearable : BOOLEAN,
   inputType : {"text", "number"}]

DefaultProps ==
  [allowMultiSelect |-> FALSE, withInput |-> FALSE, clearable |-> FALSE, inputType |-> "text"]

NoEvent == [name |-> "none", option |-> "", text |-> ""]

\* The component after useState(false), useState(null), useState(null):
\* lines 60-64; the value prop is not given yet.
ComboboxMounted(props) ==
  [props |-> props,
   value |-> Null,
   open |-> FALSE,
   localValue |-> Null,
   inputType |-> "null",
   reported |-> <<>>,
   last |-> NoEvent,
   dirty |-> FALSE,
   events |-> 0]

\* ----------------------------------------------------------------- actions
ContactsInit ==
  /\ contacts = {}
  /\ contactAttributes = {}
  /\ contactAttributeKeys = {}
  /\ nextContactId = 1
  /\ nextKeyId = 1
  /\ call = [s \in Slots |-> IdleCall]
  /\ started = 0
  /\ cacheStore = [e \in Envs |-> NoEntry]
  /\ deletes = 0

Init ==
  /\ ContactsInit
  /\ editor = EditorMounted
  /\ combobox = ComboboxMounted(DefaultProps)

\* createContactsFromCSV is called: lines 204-222. The arguments are values
\* that pass validateInputs; a call takes the lowest free slot.
Start(s, batches, envs, limit) ==
  /\ started < limit
  /\ call[s].pc = "idle"
  /\ \A t \in Slots : t < s => call[t].pc /= "idle"
  /\ \E csvData \in batches, environmentId \in envs, action \in DuplicateActions :
       call' = [call EXCEPT ![s] =
                  [IdleCall EXCEPT !.pc = "findContacts", !.csvData = csvData,
                                   !.environmentId = environmentId,
                                   !.duplicateContactsAction = action,
                                   !.before = Tables]]
  /\ started' = started + 1
  /\ UNCHANGED <<store, cacheVars, uiVars>>

\* Fetch existing contacts by email, map emails to them: lines 224-260.
FindContacts(s) ==
  LET c == call[s]
      found == existingContactsByEmail(c.environmentId, csvEmails(c.csvData))
  IN  /\ c.pc = "findContacts"
      /\ \E m \in emailToContactMaps(found) :
           call' = [call EXCEPT ![s].emailToContactMap = m,
                                ![s].pc = IF csvUserIds(c.csvData) /= {}
                                          THEN "checkUserIds" ELSE "findKeys"]
      /\ UNCHANGED <<store, started, cacheVars, uiVars>>

\* Check for duplicate userIds: lines 261-279 (the throw is mapped at 446-451).
CheckUserIds(s) ==
  LET c == call[s]
      existing == existingUserIds(c.environmentId, csvUserIds(c.csvData))
  IN  /\ c.pc = "checkUserIds"
      /\ IF existing /= {}
         THEN \E v \in existing :
                call' = [call EXCEPT ![s].pc = "failed",
                                     ![s].error = [type |-> "ValidationError", userId |-> v]]
         ELSE call' = [call EXCEPT ![s].pc = "findKeys"]
      /\ UNCHANGED <<store, started, cacheVars, uiVars>>

\* Fetch existing attribute keys, identify the missing ones: lines 281-301;
\* with none missing the records are dispatched at once (lines 325-438).
FindKeys(s) ==
  LET c == call[s]
      keyMap == existingAttributeKeys(c.environmentId)
      missing == csvKeys(c.csvData) \ DOMAIN keyMap
      c1 == [c EXCEPT !.attributeKeyMap = keyMap, !.missingKeys = missing]
  IN  /\ c.pc = "findKeys"
      /\ call' = [call EXCEPT ![s] =
                    IF missing /= {} THEN [c1 EXCEPT !.pc = "createKeys"]
                    ELSE [c1 EXCEPT !.pc = "process", !.results = contactPromises(c1)]]
      /\ UNCHANGED <<store, started, cacheVars, uiVars>>

\* Create missing attribute keys: lines 302-309.
CreateKeys(s) ==
  LET c == call[s]
      rows == createMany(c.missingKeys, c.environmentId)
  IN  /\ c.pc = "createKeys"
      /\ contactAttributeKeys' = contactAttributeKeys \cup rows
      /\ nextKeyId' = nextKeyId + Cardinality(rows)
      /\ call' = [call EXCEPT ![s].pc = "refetchKeys"]
      /\ UNCHANGED <<contacts, contactAttributes, nextContactId, started, cacheVars, uiVars>>

\* The records dispatched without the second fetch: attributeKeyMap holds
\* only the keys that were defined before createMany.
RefetchKeysSkipped(s) ==
  LET c == call[s]
  IN  /\ c.pc = "refetchKeys"
      /\ call' = [call EXCEPT ![s] = [c EXCEPT !.pc = "process", !.results = contactPromises(c)]]
      /\ UNCHANGED <<store, started, cacheVars, uiVars>>

\* Fetch the new keys into attributeKeyMap and dispatch the records: lines 311-438.
RefetchKeys(s) ==
  LET c == call[s]
      all == existingAttributeKeys(c.environmentId)
      keyMap == [k \in DOMAIN c.attributeKeyMap \cup (DOMAIN all \cap c.missingKeys) |->
                   IF k \in c.missingKeys /\ k \in DOMAIN all THEN all[k] ELSE c.attributeKeyMap[k]]
      c1 == [c EXCEPT !.attributeKeyMap = keyMap]
  IN  /\ c.pc = "refetchKeys"
      /\ call' = [call EXCEPT ![s] = [c1 EXCEPT !.pc = "process", !.results = contactPromises(c1)]]
      /\ UNCHANGED <<store, started, cacheVars, uiVars>>

\* The rows with the empty values dropped.
newAttributesNonEmpty(contactId, attributeKeyMap, record) ==
  {[contactId |-> contactId, attributeKeyId |-> attributeKeyMap[k], value |-> record[k]] :
     k \in {x \in DOMAIN record : record[x] /= ""}}

\* The rows Object.entries(record).map(...) asks the store to write for one
\* contact: lines 346-358, 387-390, 414-417.
newAttributes(contactId, attributeKeyMap, record) ==
  {[contactId |-> contactId, attributeKeyId |-> attributeKeyMap[k], value |-> record[k]] :
     k \in DOMAIN record}

\* An upsert that creates the missing rows and leaves the existing ones as they are.
upsertCreateOnly(attrs, rows) ==
  attrs \cup {r \in rows :
    ~\E a \in attrs : r.contactId = a.contactId /\ r.attributeKeyId = a.attributeKeyId}

\* attributes: { upsert }: a row of the same (contactId, attributeKeyId) is
\* updated, the others are created: lines 361-367.
upsert(attrs, rows) ==
  {a \in attrs : ~\E r \in rows : r.contactId = a.contactId /\ r.attributeKeyId = a.attributeKeyId}
    \cup rows

\* The unique constraint contactId_attributeKeyId (line 348) rejects a created
\* row whose pair is already in the table.
UniqueViolation(attrs, rows) ==
  \E a \in attrs, r \in rows : r.contactId = a.contactId /\ r.attributeKeyId = a.attributeKeyId

Resolved(c, i) == DOMAIN c.csvData[i] \subseteq DOMAIN c.attributeKeyMap

Fail(s, i) == [call EXCEPT ![s].results[i].pc = "failed"]

Succeed(s, i, contactId) ==
  [call EXCEPT ![s].results[i] = [pc |-> "done", contact |-> contactId],
               ![s].touched = @ \cup {contactId},
               ![s].late = IF call[s].pc = "failed" THEN @ \cup {i} ELSE @]

\* Create new contact: lines 412-437.
CreateContact(s, i) ==
  LET c == call[s]
      rows == newAttributes(nextContactId, c.attributeKeyMap, c.csvData[i])
  IN  /\ i \in DOMAIN c.results
      /\ c.results[i].pc = "create"
      /\ IF Resolved(c, i)
         THEN /\ contacts' = contacts \cup {[id |-> nextContactId, environmentId |-> c.environmentId]}
              /\ contactAttributes' = contactAttributes \cup rows
              /\ nextContactId' = nextContactId + 1
              /\ call' = Succeed(s, i, nextContactId)
         ELSE /\ call' = Fail(s, i)
              /\ UNCHANGED <<contacts, contactAttributes, nextContactId>>
      /\ UNCHANGED <<contactAttributeKeys, nextKeyId, started, cacheVars, uiVars>>

\* case "update": upsert the record's attributes onto the contact: lines 340-379.
UpdateContact(s, i) ==
  LET c == call[s]
      id == c.results[i].contact
  IN  /\ i \in DOMAIN c.results
      /\ c.results[i].pc = "update"
      /\ IF Resolved(c, i) /\ id \in {x.id : x \in contacts}
         THEN /\ contactAttributes' =
                   upsert(contactAttributes, newAttributes(id, c.attributeKeyMap, c.csvData[i]))
              /\ call' = Succeed(s, i, id)
         ELSE /\ call' = Fail(s, i)
              /\ UNCHANGED contactAttributes
      /\ UNCHANGED <<contacts, contactAttributeKeys, nextContactId, nextKeyId, started, cacheVars, uiVars>>

\* A deleteMany that removes only the attributes the record is about to write.
OverwriteDeleteRecordKeys(s, i) ==
  LET c == call[s]
      id == c.results[i].contact
      ids == {c.attributeKeyMap[k] : k \in DOMAIN c.csvData[i] \cap DOMAIN c.attributeKeyMap}
  IN  /\ i \in DOMAIN c.results
      /\ c.results[i].pc = "deleteMany"
      /\ contactAttributes' =
           {a \in contactAttributes : ~(a.contactId = id /\ a.attributeKeyId \in ids)}
      /\ call' = [call EXCEPT ![s].results[i].pc = "overwrite", ![s].touched = @ \cup {id}]
      /\ UNCHANGED <<contacts, contactAttributeKeys, nextContactId, nextKeyId, started, cacheVars, uiVars>>

\* case "overwrite", first store call: delete the contact's attributes: lines 381-385.
OverwriteDelete(s, i) ==
  LET c == call[s]
      id == c.results[i].contact
  IN  /\ i \in DOMAIN c.results
      /\ c.results[i].pc = "deleteMany"
      /\ contactAttributes' = {a \in contactAttributes : a.contactId /= id}
      /\ call' = [call EXCEPT ![s].results[i].pc = "overwrite", ![s].touched = @ \cup {id}]
      /\ UNCHANGED <<contacts, contactAttributeKeys, nextContactId, nextKeyId, started, cacheVars, uiVars>>

\* case "overwrite", second store call: create the record's attributes: lines 387-410.
OverwriteCreate(s, i) ==
  LET c == call[s]
      id == c.results[i].contact
  IN  /\ i \in DOMAIN c.results
      /\ c.results[i].pc = "overwrite"
      /\ IF /\ Resolved(c, i)
            /\ id \in {x.id : x \in contacts}
            /\ ~UniqueViolation(contactAttributes, newAttributes(id, c.attributeKeyMap, c.csvData[i]))
         THEN /\ contactAttributes' =
                   contactAttributes \cup newAttributes(id, c.attributeKeyMap, c.csvData[i])
              /\ call' = Succeed(s, i, id)
         ELSE /\ call' = Fail(s, i)
              /\ UNCHANGED contactAttributes
      /\ UNCHANGED <<contacts, contactAttributeKeys, nextContactId, nextKeyId, started, cacheVars, uiVars>>

\* The store call record i is waiting for fails with a known request error
\* (a timeout, a lost connection): it changes nothing in the tables and the
\* callback of the record rejects.
StoreFails(s, i) ==
  /\ i \in DOMAIN call[s].results
  /\ call[s].results[i].pc \in {"create", "update", "deleteMany", "overwrite"}
  /\ call' = Fail(s, i)
  /\ UNCHANGED <<store, started, cacheVars, uiVars>>

\* A rejection that abandons the records still waiting for the store.
RejectCancelsPending(s) ==
  /\ call[s].pc = "process"
  /\ \E i \in DOMAIN call[s].results : call[s].results[i].pc = "failed"
  /\ call' = [call EXCEPT ![s].pc = "failed", ![s].error = [type |-> "DatabaseError"],
                          ![s].results = [i \in DOMAIN @ |->
                             IF @[i].pc \in {"null", "done"} THEN @[i]
                             ELSE [@[i] EXCEPT !.pc = "failed"]]]
  /\ UNCHANGED <<store, started, cacheVars, uiVars>>

\* await Promise.all(contactPromises) rejects with the first failed record;
\* the catch maps the store's error: lines 440, 446-451.
Reject(s) ==
  /\ call[s].pc = "process"
  /\ \E i \in DOMAIN call[s].results : call[s].results[i].pc = "failed"
  /\ call' = [call EXCEPT ![s].pc = "failed", ![s].error = [type |-> "DatabaseError"]]
  /\ UNCHANGED <<store, started, cacheVars, uiVars>>

\* await Promise.all(contactPromises) resolves; the non-null results are
\* returned: lines 440-445.
Join(s) ==
  /\ call[s].pc = "process"
  /\ \A i \in DOMAIN call[s].results : call[s].results[i].pc \in {"null", "done"}
  /\ call' = [call EXCEPT ![s].pc = "done", ![s].createdContacts = Aggregate(call[s].results)]
  /\ UNCHANGED <<store, started, cacheVars, uiVars>>

\* The caller has the result or the error, every record has settled: the
\* locals of the call are gone.
Return(s) ==
  /\ call[s].pc \in {"done", "failed"}
  /\ Settled(call[s])
  /\ call' = [call EXCEPT ![s] = IdleCall]
  /\ UNCHANGED <<store, started, cacheVars, uiVars>>

\* One step of the call in slot s.
Step(s) ==
  \/ FindContacts(s)
  \/ CheckUserIds(s)
  \/ FindKeys(s)
  \/ CreateKeys(s)
  \/ RefetchKeys(s)
  \/ \E i \in DOMAIN call[s].results : CreateContact(s, i)
  \/ \E i \in DOMAIN call[s].results : UpdateContact(s, i)
  \/ \E i \in DOMAIN call[s].results : OverwriteDelete(s, i)
  \/ \E i \in DOMAIN call[s].results : OverwriteCreate(s, i)
  \/ Reject(s)
  \/ Join(s)
  \/ Return(s)

\* Calls made one after the other.
Next == Start(1, Batches(MaxBatch), Envs, MaxCalls) \/ Step(1)

Spec == Init /\ [][Next]_vars

\* Calls made one after the other on a store whose calls may fail.
NextFail == Next \/ \E i \in DOMAIN call[1].results : StoreFails(1, i)

SpecFail == Init /\ [][NextFail]_vars

\* The caller, holding the result or the error of a call whose records have
\* all settled, calls again with the same batch, environment and policy.
Rerun(s) ==
  /\ started < MaxCalls
  /\ call[s].pc \in {"done", "failed"}
  /\ Settled(call[s])
  /\ call' = [call EXCEPT ![s] =
                [IdleCall EXCEPT !.pc = "findContacts", !.csvData = call[s].csvData,
                                 !.environmentId = call[s].environmentId,
                                 !.duplicateContactsAction = call[s].duplicateContactsAction,
                                 !.before = Tables, !.rerun = TRUE]]
  /\ started' = started + 1
  /\ UNCHANGED <<store, cacheVars, uiVars>>

NextRerun == NextFail \/ Rerun(1)

SpecRerun == Init /\ [][NextRerun]_vars

\* Calls on one environment that may overlap two at a time: the store calls
\* of both interleave.
NextConc == \E s \in Slots : Start(s, Batches(MaxConcBatch), {"env1"}, MaxConcCalls) \/ Step(s)

SpecConc == Init /\ [][NextConc]_vars

\* ------------------------------------------------------------ cached reads
\* What prisma.contact.findMany({where: {environmentId}, select: selectContact})
\* returns: lines 85-92.
ContactsView(environmentId) ==
  {[id |-> x.id, attributes |-> AttributesOf(contactAttributes, contactAttributeKeys, x.id)] :
     x \in {y \in contacts : y.environmentId = environmentId}}

\* contactCache.revalidate({id, environmentId}): the entries tagged with the
\* environment are dropped.
revalidate(cache, environmentId) == [cache EXCEPT ![environmentId] = NoEntry]

\* getContacts(environmentId): cache() runs the query on a miss and keeps the
\* result under the tag of the environment; on a hit it returns the entry: lines 78-106.
GetContacts(environmentId) ==
  /\ cacheStore[environmentId] = NoEntry
  /\ cacheStore' = [cacheStore EXCEPT ![environmentId] =
                     [cached |-> TRUE, contacts |-> ContactsView(environmentId)]]
  /\ UNCHANGED <<store, call, started, deletes, uiVars>>

\* deleteContact(contactId): the contact goes with its attributes, then the
\* cache is revalidated: lines 136-163.
DeleteContact(contactId) ==
  /\ deletes < MaxDeletes
  /\ \E x \in contacts :
       /\ x.id = contactId
       /\ contacts' = contacts \ {x}
       /\ contactAttributes' = {a \in contactAttributes : a.contactId /= contactId}
       /\ cacheStore' = revalidate(cacheStore, x.environmentId)
  /\ deletes' = deletes + 1
  /\ UNCHANGED <<contactAttributeKeys, nextContactId, nextKeyId, call, started, uiVars>>

NextCache ==
  \/ Start(1, Batches(MaxConcBatch), Envs, MaxCalls)
  \/ Step(1)
  \/ \E environmentId \in Envs : GetContacts(environmentId)
  \/ \E contactId \in 1..(nextContactId - 1) : DeleteContact(contactId)

SpecCache == Init /\ [][NextCache]_vars

\* ------------------------------------------------- AdvancedLogicEditorActions
MaxEdits == 3

Targets == {"", "q2"}

\* Array.prototype.splice(start, deleteCount, ...items) on a 0-based start:
\* the array it leaves.
splice(array, start, deleteCount, items) ==
  SubSeq(array, 1, start) \o items \o SubSeq(array, start + deleteCount + 1, Len(array))

\* A Remove item that is never disabled.
DeleteAlwaysOffered(actions) == TRUE

\* The Remove item of the menu is disabled while one action is left: line 201.
DeleteOffered(actions) == Len(actions) /= 1

\* logicCopy is question.logic itself: the edit shows in the array of the prop.
sharedWithProp(logic, editedCopy) == editedCopy

\* structuredClone(question.logic), line 52: logicCopy shares no object with
\* the array of the prop, which is left as it is when the copy is edited.
structuredClone(logic, editedCopy) == logic

\* handleActionsChange(operation, actionIdx, action) of the component
\* rendered for logic item logicIdx: lines 47-70. question.logic is cloned,
\* the clone is edited and passed to updateQuestion; createId() gives the
\* next fresh cuid.
handleActionsChange(logicIdx, operation, actionIdx, action) ==
  LET logicCopy == editor.logic
      actionsClone == logicCopy[logicIdx + 1].actions
      fresh == editor.nextCuid
      edited ==
        CASE operation = "delete" -> splice(actionsClone, actionIdx, 1, <<>>)
          [] operation = "addBelow" ->
               splice(actionsClone, actionIdx + 1, 0,
                      << [id |-> fresh, objective |-> "jumpToQuestion", target |-> ""] >>)
          [] operation = "duplicate" ->
               splice(actionsClone, actionIdx + 1, 0,
                      << [actionsClone[actionIdx + 1] EXCEPT !.id = fresh] >>)
          [] operation = "update" -> [actionsClone EXCEPT ![actionIdx + 1] = action]
      editedCopy == [logicCopy EXCEPT ![logicIdx + 1].actions = edited]
  IN  /\ editor.edits < MaxEdits
      /\ ~editor.updated.called
      /\ editor' = [editor EXCEPT
           !.logic = structuredClone(editor.logic, editedCopy),
           !.updated = [called |-> TRUE, logic |-> editedCopy],
           !.last = [operation |-> operation, logicIdx |-> logicIdx, actionIdx |-> actionIdx],
           !.nextCuid = IF operation \in {"addBelow", "duplicate"} THEN @ + 1 ELSE @,
           !.edits = @ + 1]
      /\ UNCHANGED <<contactVars, combobox>>

\* The items of the dropdown menu of action actionIdx: lines 189-217.
MenuItem(logicIdx, actionIdx) ==
  \E operation \in {"addBelow", "delete", "duplicate"} :
    /\ operation = "delete" => DeleteOffered(editor.logic[logicIdx + 1].actions)
    /\ handleActionsChange(logicIdx, operation, actionIdx,
                           editor.logic[logicIdx + 1].actions[actionIdx + 1])

\* handleValuesChange(actionIdx, {target}): lines 78-82, called at lines 109-113.
handleValuesChange(logicIdx, actionIdx) ==
  \E target \in Targets :
    handleActionsChange(logicIdx, "update", actionIdx,
      [editor.logic[logicIdx + 1].actions[actionIdx + 1] EXCEPT !.target = target])

\* The component is rendered again with the question that updateQuestion was
\* given.
Render ==
  /\ editor.updated.called
  /\ editor' = [editor EXCEPT !.logic = editor.updated.logic, !.updated = NoUpdate]
  /\ UNCHANGED <<contactVars, combobox>>

NextEditor ==
  \/ \E logicIdx \in 0..(Len(editor.logic) - 1) :
       \E actionIdx \in 0..(Len(editor.logic[logicIdx + 1].actions) - 1) :
         MenuItem(logicIdx, actionIdx)
  \/ \E logicIdx \in 0..(Len(editor.logic) - 1) :
       \E actionIdx \in 0..(Len(editor.logic[logicIdx + 1].actions) - 1) :
         handleValuesChange(logicIdx, actionIdx)
  \/ Render

SpecEditor == Init /\ [][NextEditor]_vars

\* ------------------------------------------------------------- InputCombobox
MaxEvents == 3

\* What the user can leave in the <input>: a number input holds the empty
\* string or a numeral.
InputTexts(type) == IF type = "number" THEN {"", "7"} ELSE {"", "x"}

\* Number(value) on the texts of a number input: Number("") is 0.
Number(text) == IF text = "" THEN 0 ELSE 7

\* One call onChangeValue(value, option, fromInput).
Call(value, option, fromInput) == [value |-> value, option |-> option, fromInput |-> fromInput]

\* The handler of an event has run: its onChangeValue calls are reported,
\* the parent hands the last value reported back as the value prop, and the
\* component is rendered again.
AfterEvent(c, name, option, text, calls) ==
  [c EXCEPT !.reported = calls,
            !.value = calls[Len(calls)].value,
            !.last = [name |-> name, option |-> option, text |-> text],
            !.dirty = TRUE,
            !.events = @ + 1]

\* The user opens or closes the popover: onOpenChange={setOpen}, line 193.
setOpen ==
  /\ ~combobox.dirty
  /\ combobox' = [combobox EXCEPT !.open = ~@]
  /\ UNCHANGED <<contactVars, editor>>

\* handleSelect(option): lines 104-131.
handleSelect(option) ==
  LET c == combobox
      doesExist == \E k \in DOMAIN c.localValue.items : c.localValue.items[k] = option
      newValue == IF doesExist
                  THEN SelectSeq(c.localValue.items, LAMBDA item : item /= option)
                  ELSE Append(c.localValue.items, option)
  IN  /\ c.events < MaxEvents
      /\ ~c.dirty
      /\ c.open
      /\ combobox' =
           IF c.props.allowMultiSelect
           THEN IF c.localValue.kind = "array"
                THEN [AfterEvent(c, "select", option, "",
                        (IF newValue = <<>> THEN <<Call(Arr(<<>>), "", FALSE)>> ELSE <<>>)
                          \o <<Call(Arr(newValue), option, FALSE)>>)
                      EXCEPT !.inputType = IF newValue = <<>> THEN "null" ELSE "dropdown",
                             !.localValue = Arr(newValue)]
                ELSE [AfterEvent(c, "select", option, "", <<Call(Arr(<<option>>), option, FALSE)>>)
                      EXCEPT !.inputType = "dropdown",
                             !.localValue = Arr(<<option>>)]
           ELSE [AfterEvent(c, "select", option, "", <<Call(Str(option), option, FALSE)>>)
                 EXCEPT !.inputType = "dropdown",
                        !.localValue = Option(option),
                        !.open = FALSE]
      /\ UNCHANGED <<contactVars, editor>>

\* onInputChange(e) with e.target.type the type of the input and
\* e.target.value = text: lines 133-150. The <Input> is rendered when
\* withInput && inputType !== "dropdown": line 185.
onInputChange(text) ==
  LET c == combobox
      val == IF c.props.inputType = "number" THEN Num(Number(text)) ELSE Str(text)
  IN  /\ c.events < MaxEvents
      /\ ~c.dirty
      /\ c.props.withInput
      /\ c.inputType /= "dropdown"
      /\ text \in InputTexts(c.props.inputType)
      /\ combobox' =
           [AfterEvent(c, "input", "", text,
               (IF text = "" THEN <<Call(Str(""), "", FALSE)>> ELSE <<>>)
                 \o <<Call(val, "", TRUE)>>)
            EXCEPT !.inputType = "input",
                   !.localValue = val]
      /\ UNCHANGED <<contactVars, editor>>

\* handleClear(): lines 173-177. The X icon is rendered when
\* clearable && inputType === "dropdown": line 206.
handleClear ==
  LET c == combobox
  IN  /\ c.events < MaxEvents
      /\ ~c.dirty
      /\ c.props.clearable
      /\ c.inputType = "dropdown"
      /\ combobox' =
           [AfterEvent(c, "clear", "", "", <<Call(Str(""), "", FALSE)>>)
            EXCEPT !.inputType = "null",
                   !.localValue = Null]
      /\ UNCHANGED <<contactVars, editor>>

\* The effect that follows the value prop after a render: lines 68-102.
useEffect ==
  LET c == combobox
      value == c.value
      isOption == value.kind = "string" /\ \E k \in DOMAIN Options : Options[k] = value.str
  IN  /\ c.dirty
      /\ combobox' =
           IF value.kind = "null"
           THEN [c EXCEPT !.localValue = Null, !.inputType = "null", !.dirty = FALSE]
           ELSE IF value.kind = "array"
           THEN IF value.items /= <<>>
                THEN [c EXCEPT
                        !.localValue =
                           Arr(SelectSeq(Options,
                                 LAMBDA o : \E k \in DOMAIN value.items : value.items[k] = o)),
                        !.inputType = "dropdown", !.dirty = FALSE]
                ELSE [c EXCEPT !.dirty = FALSE]
           ELSE IF isOption
           THEN [c EXCEPT !.localValue = Option(value.str), !.inputType = "dropdown",
                          !.dirty = FALSE]
           ELSE IF c.props.withInput
           THEN [c EXCEPT !.localValue = value, !.inputType = "input", !.dirty = FALSE]
           ELSE [c EXCEPT !.localValue = Null, !.inputType = "null", !.dirty = FALSE]
      /\ UNCHANGED <<contactVars, editor>>

NextCombobox ==
  \/ setOpen
  \/ \E k \in DOMAIN Options : handleSelect(Options[k])
  \/ \E text \in {"", "7", "x"} : onInputChange(text)
  \/ handleClear
  \/ useEffect

\* A combobox mounted with any props.
ComboboxInit ==
  /\ ContactsInit
  /\ editor = EditorMounted
  /\ \E props \in ComboboxProps : combobox = ComboboxMounted(props)

SpecCombobox == ComboboxInit /\ [][NextCombobox]_vars

\* ------------------------------------------------------------------ claims
\* The attributes of a contact in a snapshot of the tables.
Attrs(t, id) == AttributesOf(t.contactAttributes, t.contactAttributeKeys, id)

\* The contacts of an environment that carry the email in a snapshot.
ContactsWithEmail(t, environmentId, email) ==
  {x.id : x \in {y \in t.contacts :
     y.environmentId = environmentId /\ <<"email", email>> \in Attrs(t, y.id)}}

\* The userId values the contacts of an environment carry in a snapshot.
UserIdValues(t, environmentId) ==
  UNION {{p[2] : p \in {q \in Attrs(t, x.id) : q[1] = "userId"}} :
           x \in {y \in t.contacts : y.environmentId = environmentId}}

\* Every userId value of the batch, the empty string included.
AllUserIds(csvData) ==
  {csvData[i].userId : i \in {j \in DOMAIN csvData : "userId" \in DOMAIN csvData[j]}}

Merge(old, record) == {p \in old : p[1] \notin DOMAIN record} \cup Entries(record)

PastUserIdCheck(c) ==
  \/ c.pc \in {"findKeys", "createKeys", "refetchKeys", "process", "done"}
  \/ c.pc = "failed" /\ c.error.type /= "ValidationError"

RejectsCollision(c, userIds) ==
  LET colliding == userIds \cap UserIdValues(c.before, c.environmentId)
  IN  (c.pc /= "idle" /\ colliding /= {}) =>
        /\ ~PastUserIdCheck(c)
        /\ Tables = c.before
        /\ c.pc = "failed" => c.error.type = "ValidationError" /\ c.error.userId \in colliding

\* C1 as stated: a batch holding any userId value (the empty string is one)
\* that a contact of the environment already carries never gets past the
\* userId check, fails with a ValidationError naming a colliding value, and
\* leaves the three tables as they were when the call began.
C1_AnyUserIdCollisionRejected == RejectsCollision(call[1], AllUserIds(call[1].csvData))

\* C1, amended: the same for every non-empty userId value of the batch.
C1_NonEmptyUserIdCollisionRejected == RejectsCollision(call[1], csvUserIds(call[1].csvData))

C1_Witness ==
  /\ call[1].pc = "failed"
  /\ call[1].error.type = "ValidationError"
  /\ call[1].error.userId \in csvUserIds(call[1].csvData)
  /\ csvKeys(call[1].csvData) \ DOMAIN existingAttributeKeys(call[1].environmentId) /= {}

\* C2: no two contacts of one environment carry the same userId value
\* (stated for the non-empty values, which the userId check is about, and
\* for contacts with different emails, so that it does not rest on two
\* contacts sharing an email).
C2_UserIdUniquePerEnvironment ==
  \A x \in contacts, y \in contacts :
    (/\ x.id /= y.id
     /\ x.environmentId = y.environmentId
     /\ \A e \in Attrs(Tables, x.id) : e[1] = "email" => e \notin Attrs(Tables, y.id))
    => \A p \in Attrs(Tables, x.id) :
         (p[1] = "userId" /\ p[2] /= "") => p \notin Attrs(Tables, y.id)

HasEmail(c, i) == Truthy(c.csvData[i], "email")

\* The contacts the environment held with the email of record i when the call began.
Matches(c, i) == ContactsWithEmail(c.before, c.environmentId, c.csvData[i].email)

ContactIds(t) == {x.id : x \in t.contacts}

\* C3: for every policy, a record whose email is missing or empty resolves to
\* null without a store call, no contact and no attribute row in the tables
\* comes from it, and it adds no element to the returned sequence.
C3_EmailLessNeverWritten ==
  LET c == call[1]
      withEmail == {i \in DOMAIN c.csvData : HasEmail(c, i)}
  IN  c.pc /= "idle" =>
        /\ \A i \in DOMAIN c.results :
             ~HasEmail(c, i) => c.results[i] = [pc |-> "null", contact |-> NoContact]
        /\ \A x \in contacts \ c.before.contacts :
             \E i \in withEmail : Attrs(Tables, x.id) = Entries(c.csvData[i])
        /\ \A a \in contactAttributes \ c.before.contactAttributes :
             \E i \in withEmail :
               /\ <<KeyRow(contactAttributeKeys, a.attributeKeyId).key, a.value>>
                    \in Entries(c.csvData[i])
               /\ \/ a.contactId \notin ContactIds(c.before)
                  \/ a.contactId \in Matches(c, i)
        /\ c.pc = "done" =>
             /\ Len(c.createdContacts) <= Cardinality(withEmail)
             /\ Range(c.createdContacts) \subseteq {c.results[i].contact : i \in withEmail}

C3_Witness ==
  /\ call[1].pc = "done"
  /\ \E i \in DOMAIN call[1].csvData : "email" \notin DOMAIN call[1].csvData[i]
  /\ \E i \in DOMAIN call[1].csvData :
       "email" \in DOMAIN call[1].csvData[i] /\ call[1].csvData[i].email = ""

\* C4: with policy skip, every contact that carried the email of a record
\* when the call began keeps its attribute set and is not returned.
C4_SkipLeavesExisting ==
  LET c == call[1]
  IN  (c.pc /= "idle" /\ c.duplicateContactsAction = "skip") =>
        \A i \in {j \in DOMAIN c.csvData : HasEmail(c, j)} :
          \A x \in Matches(c, i) :
            /\ Attrs(Tables, x) = Attrs(c.before, x)
            /\ x \notin Range(c.createdContacts)
            /\ i \in DOMAIN c.results => c.results[i].pc = "null"

C4_Witness ==
  LET c == call[1]
  IN  /\ c.pc = "done"
      /\ c.duplicateContactsAction = "skip"
      /\ \E i \in DOMAIN c.csvData : HasEmail(c, i) /\ Matches(c, i) /= {}
      /\ c.createdContacts /= <<>>

UpdateStepMerges ==
  \A i \in DOMAIN call[1].results :
    (call[1].results[i].pc = "update" /\ call'[1].results[i].pc = "done") =>
      LET x == call[1].results[i].contact
      IN  Attrs(Tables', x) = Merge(Attrs(Tables, x), call[1].csvData[i])

\* After the import that merge is the contact's attribute set when no other
\* record of the batch carries the email.
UpdateMergedAfterImport ==
  LET c == call[1]
  IN  (c.pc = "done" /\ c.duplicateContactsAction = "update") =>
        \A i \in {j \in DOMAIN c.csvData : HasEmail(c, j)} :
          (/\ Matches(c, i) /= {}
           /\ \A j \in DOMAIN c.csvData :
                (HasEmail(c, j) /\ c.csvData[j].email = c.csvData[i].email) => j = i)
          => LET x == c.results[i].contact
             IN  /\ x \in Matches(c, i)
                 /\ Attrs(Tables, x) = Merge(Attrs(c.before, x), c.csvData[i])

C7_CreateWritesRecordVerbatim ==
  LET c == call[1]
  IN  \A i \in DOMAIN c.results :
        (HasEmail(c, i) /\ Matches(c, i) = {} /\ c.results[i].pc = "done") =>
          LET x == c.results[i].contact
              rows == {a \in contactAttributes : a.contactId = x}
          IN  /\ x \notin ContactIds(c.before)
              /\ [id |-> x, environmentId |-> c.environmentId] \in contacts
              /\ \A j \in DOMAIN c.results : j /= i => c.results[j].contact /= x
              /\ Cardinality(rows) = Cardinality(DOMAIN c.csvData[i])
              /\ \A k \in DOMAIN c.csvData[i] :
                   \E a \in rows :
                     /\ a.value = c.csvData[i][k]
                     /\ [id |-> a.attributeKeyId, key |-> k, environmentId |-> c.environmentId]
                          \in contactAttributeKeys

C7_Witness ==
  LET c == call[1]
  IN  /\ c.pc = "done"
      /\ \E i \in DOMAIN c.results :
           /\ HasEmail(c, i) /\ Matches(c, i) = {} /\ c.results[i].pc = "done"
           /\ \E k \in DOMAIN c.csvData[i] : c.csvData[i][k] = ""

\* The records of the call that lead to a write: those with an email, unless
\* the policy is skip and a contact carried the email.
Writes(c, i) ==
  HasEmail(c, i) /\ ~(c.duplicateContactsAction = "skip" /\ Matches(c, i) /= {})

\* C8: on success the returned sequence holds one entry per record that
\* created, updated or overwrote a contact, these are exactly the contacts
\* the call wrote to, every contact that is new or changed is among them, and
\* skipped and email-less records add no entry.
C8_ReturnsExactlyWritten ==
  LET c == call[1]
      writers == {i \in DOMAIN c.csvData : Writes(c, i)}
      changed == {x \in ContactIds(Tables) :
                    x \notin ContactIds(c.before) \/ Attrs(Tables, x) /= Attrs(c.before, x)}
  IN  c.pc = "done" =>
        /\ Len(c.createdContacts) = Cardinality(writers)
        /\ Range(c.createdContacts) = {c.results[i].contact : i \in writers}
        /\ Range(c.createdContacts) = c.touched
        /\ changed \subseteq Range(c.createdContacts)
        /\ Range(c.createdContacts) \subseteq ContactIds(Tables)

C8_Witness ==
  LET c == call[1]
  IN  /\ c.pc = "done"
      /\ c.createdContacts /= <<>>
      /\ \E i \in DOMAIN c.csvData : ~Writes(c, i)
      /\ c.before.contacts /= {}

DefinedKeys(environmentId) ==
  {k.key : k \in {x \in contactAttributeKeys : x.environmentId = environmentId}}

\* At most one definition per (environment, key); a call that is past the
\* reconciliation finds every column of its batch defined; no call fails in
\* the reconciliation.
KeysReconciled ==
  /\ \A k1 \in contactAttributeKeys, k2 \in contactAttributeKeys :
       (k1.key = k2.key /\ k1.environmentId = k2.environmentId) => k1 = k2
  /\ \A s \in Slots :
       /\ call[s].pc \in {"refetchKeys", "process", "done"} =>
            csvKeys(call[s].csvData) \subseteq DefinedKeys(call[s].environmentId)
       /\ call[s].pc = "failed" =>
            call[s].error.type = "ValidationError" \/ call[s].results /= <<>>

\* A step never removes or redefines a key, and while every column of every
\* call in progress is defined (as in a second import with the same columns)
\* the key table stays as it is.
KeysIdempotent ==
  /\ contactAttributeKeys \subseteq contactAttributeKeys'
  /\ (\A s \in Slots :
        call[s].pc \notin {"idle", "done", "failed"} =>
          csvKeys(call[s].csvData) \subseteq DefinedKeys(call[s].environmentId))
       => contactAttributeKeys' = contactAttributeKeys

\* C9: key reconciliation is duplicate-free and idempotent, also when two
\* imports reconcile the same missing keys at the same time, and raises no
\* error for keys that exist.
C9_KeyReconciliationIdempotent == []KeysReconciled /\ [][KeysIdempotent]_vars

\* Two calls were both about to create the same missing key, and both are past it.
C9_Witness ==
  /\ call[1].pc = "done" /\ call[2].pc = "done"
  /\ call[1].environmentId = call[2].environmentId
  /\ call[1].missingKeys \cap call[2].missingKeys /= {}

\* What getContacts(environmentId) returns now: the cached entry if there is one.
Served(environmentId) ==
  IF cacheStore[environmentId] = NoEntry THEN ContactsView(environmentId)
  ELSE cacheStore[environmentId].contacts

\* C10: the writes of an import invalidate the cached reads of its
\* environment: when the import has returned, getContacts of the environment
\* serves the contacts as they are in the store, not an entry cached before.
C10_WritesInvalidateCache ==
  LET c == call[1]
  IN  (c.pc = "done" /\ c.touched /= {}) =>
        Served(c.environmentId) = ContactsView(c.environmentId)

\* The column of every record of a dispatched call is resolved to the id of
\* the key definition of that name in the environment of the call.
KeysResolved(c) ==
  c.results /= <<>> =>
    \A i \in DOMAIN c.csvData : \A col \in DOMAIN c.csvData[i] :
      /\ col \in DOMAIN c.attributeKeyMap
      /\ \E k \in contactAttributeKeys :
           /\ k.id = c.attributeKeyMap[col]
           /\ k.key = col
           /\ k.environmentId = c.environmentId

\* Every attribute row references a key definition of the environment of its contact.
RowsReferenceKeys ==
  \A a \in contactAttributes :
    \E k \in contactAttributeKeys, x \in contacts :
      /\ k.id = a.attributeKeyId
      /\ x.id = a.contactId
      /\ k.environmentId = x.environmentId

\* A step that writes attribute rows finds their key definitions in the
\* table already, in the environment of the call, and once a call has
\* written to a contact it defines no key.
KeysPrecedeWrites ==
  /\ \A a \in contactAttributes' \ contactAttributes :
       \E k \in contactAttributeKeys :
         k.id = a.attributeKeyId /\ k.environmentId = call[1].environmentId
  /\ (call[1].touched /= {} \/ contactAttributes' /= contactAttributes)
       => contactAttributeKeys' = contactAttributeKeys

\* C11: every attribute row written by createContactsFromCSV references a
\* key definition that exists in the same environment when the row is
\* written: no record column is left without a key id, and the keys of a
\* call are all created before its first attribute write.
C11_RowsReferenceExistingKeys ==
  /\ [](RowsReferenceKeys /\ KeysResolved(call[1]))
  /\ [][KeysPrecedeWrites]_vars

\* A call that had to create keys has written rows under them.
C11_Witness ==
  LET c == call[1]
  IN  /\ c.pc = "done"
      /\ c.missingKeys /= {}
      /\ \E a \in contactAttributes \ c.before.contactAttributes :
           KeyRow(contactAttributeKeys, a.attributeKeyId).key \in c.missingKeys

\* The batch without its email-less records.
WithEmailOnly(csvData) == SelectSeq(csvData, LAMBDA record : Truthy(record, "email"))

\* C12: the records without an email have no influence on a call: the call
\* fails the userId check only if the batch without them fails it on the
\* same store, and the key definitions it creates are those of the columns
\* of the batch without them (stated for the batches that keep a record).
C12_EmailLessRecordsHaveNoInfluence ==
  LET c == call[1]
      kept == WithEmailOnly(c.csvData)
      created == {k.key : k \in contactAttributeKeys \ c.before.contactAttributeKeys}
  IN  (c.pc /= "idle" /\ kept /= <<>>) =>
        /\ (c.pc = "failed" /\ c.error.type = "ValidationError")
             => csvUserIds(kept) \cap UserIdValues(c.before, c.environmentId) /= {}
        /\ created \subseteq csvKeys(kept)

\* What the resolution of record i leaves on the existing contact it was
\* resolved to, once complete.
CompleteResult(c, i) ==
  IF c.duplicateContactsAction = "update"
  THEN Merge(Attrs(c.before, c.results[i].contact), c.csvData[i])
  ELSE Entries(c.csvData[i])

\* C13: in every state, the attribute set of an existing contact that a
\* record of the call was resolved to is the set it had before the record
\* was processed or the complete result of the resolution, never a set in
\* between (stated for a contact that one record only of the batch was
\* resolved to).
C13_RecordResolutionAtomic ==
  LET c == call[1]
  IN  c.pc /= "idle" =>
        \A i \in DOMAIN c.results :
          (/\ c.results[i].contact \in ContactIds(c.before)
           /\ \A j \in DOMAIN c.results : c.results[j].contact = c.results[i].contact => j = i)
          => Attrs(Tables, c.results[i].contact)
               \in {Attrs(c.before, c.results[i].contact), CompleteResult(c, i)}

\* The attribute set the first n records of the call leave on the existing
\* contact x when their store operations run one record after the other, in
\* the order of the batch.
RECURSIVE InBatchOrder(_, _, _)
InBatchOrder(c, x, n) ==
  IF n = 0 THEN Attrs(c.before, x)
  ELSE LET rest == InBatchOrder(c, x, n - 1)
       IN  IF c.results[n].contact /= x THEN rest
           ELSE IF c.duplicateContactsAction = "update" THEN Merge(rest, c.csvData[n])
           ELSE Entries(c.csvData[n])

\* C14: the result of a call does not depend on the order in which the store
\* operations of its records run: whatever the interleaving, once every
\* record has settled no record has failed and every contact the batch was
\* resolved to holds what the records leave when processed one after the
\* other in the order of the batch.
C14_OrderOfRecordsImmaterial ==
  LET c == call[1]
  IN  (c.results /= <<>> /\ Settled(c)) =>
        /\ \A i \in DOMAIN c.results : c.results[i].pc /= "failed"
        /\ \A x \in ContactIds(c.before) :
             Attrs(Tables, x) = InBatchOrder(c, x, Len(c.csvData))

Pending(c) == {i \in DOMAIN c.results : c.results[i].pc \in {"create", "update", "deleteMany", "overwrite"}}

\* The store call record i of slot 1 is waiting for completes.
RecordStep(i) ==
  \/ CreateContact(1, i)
  \/ UpdateContact(1, i)
  \/ OverwriteDelete(1, i)
  \/ OverwriteCreate(1, i)

\* A call resolves only when no record has failed; a call that fails past
\* the dispatch of its records fails with DatabaseError for a failed record.
\* Then the keys it created and the contacts its records wrote are in the
\* tables, and the store call of every record still waiting can complete.
FailureLeavesOthersRunning ==
  LET c == call[1]
  IN  /\ c.pc = "done" => \A i \in DOMAIN c.results : c.results[i].pc /= "failed"
      /\ (c.pc = "failed" /\ c.results /= <<>>) =>
           /\ c.error.type = "DatabaseError"
           /\ \E i \in DOMAIN c.results : c.results[i].pc = "failed"
           /\ c.missingKeys \subseteq DefinedKeys(c.environmentId)
           /\ \A i \in DOMAIN c.results :
                c.results[i].pc = "done" => c.results[i].contact \in ContactIds(Tables)
           /\ \A i \in Pending(c) : ENABLED RecordStep(i)

\* The step that rejects the call changes no table and no record's state,
\* and no later step of the failed call takes back what is in the tables or
\* the outcome of a settled record.
FailureRollsNothingBack ==
  LET c == call[1]
  IN  /\ (c.pc = "process" /\ call'[1].pc = "failed") =>
           /\ UNCHANGED store
           /\ call'[1].results = c.results
      /\ (c.pc = "failed" /\ call'[1].pc = "failed") =>
           /\ contacts \subseteq contacts'
           /\ contactAttributeKeys' = contactAttributeKeys
           /\ \A i \in DOMAIN c.results \ Pending(c) : call'[1].results[i] = c.results[i]
           /\ \A a \in contactAttributes \ contactAttributes' :
                \E i \in Pending(c) : c.results[i].contact = a.contactId

\* C15: when the store operation of one record fails, the call rejects with
\* DatabaseError, and the operations of the other records are neither
\* cancelled nor rolled back: the key definitions and the writes of the
\* other records stay in the store, and a record still waiting for the
\* store completes after the call has reported its failure.
C15_FailureLeavesOtherRecords ==
  []FailureLeavesOthersRunning /\ [][FailureRollsNothingBack]_vars

\* The call has failed with DatabaseError; a record wrote its contact after
\* that and another write, made before, is still there.
C15_Witness ==
  LET c == call[1]
  IN  /\ c.pc = "failed"
      /\ c.error.type = "DatabaseError"
      /\ c.missingKeys /= {}
      /\ \E i \in c.late :
           /\ c.results[i].pc = "done"
           /\ Attrs(Tables, c.results[i].contact) = Entries(c.csvData[i])

\* C16: a call made again with the same batch, environment and policy, after
\* a first run that succeeded or failed part-way, does not fail with a
\* validation error and gives no email of the batch a further contact when
\* a contact carried it already.
C16_RerunIsSafe ==
  LET c == call[1]
  IN  c.rerun =>
        /\ ~(c.pc = "failed" /\ c.error.type = "ValidationError")
        /\ \A e \in csvEmails(c.csvData) :
             ContactsWithEmail(c.before, c.environmentId, e) /= {} =>
               ContactsWithEmail(Tables, c.environmentId, e)
                 \subseteq ContactsWithEmail(c.before, c.environmentId, e)

\* What the record of a one-record call leaves on an existing contact that
\* holds attrs, when nothing else runs.
AppliedAlone(c, attrs) ==
  IF c.duplicateContactsAction = "update" THEN Merge(attrs, c.csvData[1])
  ELSE Entries(c.csvData[1])

\* C17: two overlapping calls whose records were resolved to the same
\* existing contact leave on it, once both have settled, what one of the
\* two calls produces alone when applied after the other, for every
\* interleaving of their store calls.
C17_LastWriterWins ==
  LET a == call[1]
      b == call[2]
  IN  (/\ a.pc \in {"done", "failed"} /\ b.pc \in {"done", "failed"}
       /\ Len(a.results) = 1 /\ Len(b.results) = 1
       /\ Settled(a) /\ Settled(b)
       /\ a.results[1].contact = b.results[1].contact
       /\ a.results[1].contact \in ContactIds(a.before) \cap ContactIds(b.before)
       /\ Attrs(a.before, a.results[1].contact) = Attrs(b.before, a.results[1].contact))
      => LET x == a.results[1].contact
             old == Attrs(a.before, x)
         IN  Attrs(Tables, x) \in {AppliedAlone(b, AppliedAlone(a, old)),
                                   AppliedAlone(a, AppliedAlone(b, old))}

\* C18: every email value belongs to at most one contact of an environment,
\* after any sequence of calls.
C18_EmailOnOneContact ==
  \A environmentId \in Envs, x \in contacts, y \in contacts :
    (/\ x.environmentId = environmentId
     /\ y.environmentId = environmentId
     /\ \E e \in Attrs(Tables, x.id) : e[1] = "email" /\ e \in Attrs(Tables, y.id))
    => x.id = y.id

\* The ids of the actions of a logic array.
ActionIds(logic) ==
  UNION {{logic[l].actions[k].id : k \in DOMAIN logic[l].actions} : l \in DOMAIN logic}

\* The logic passed to updateQuestion, against question.logic as the
\* component holds it: no logic item is left without an action, the other
\* logic items are as they were, and the item edited differs by the one
\* operation asked for.
UpdateMatchesOperation ==
  LET old == editor.logic
      new == editor.updated.logic
      l == editor.last.logicIdx + 1
      k == editor.last.actionIdx + 1
      op == editor.last.operation
      before == old[l].actions
      after == new[l].actions
  IN  editor.updated.called =>
        /\ Len(new) = Len(old)
        /\ \A m \in DOMAIN new : new[m].actions /= <<>> /\ (m /= l => new[m] = old[m])
        /\ op \in {"addBelow", "duplicate"} =>
             /\ Len(after) = Len(before) + 1
             /\ \A j \in 1..k : after[j] = before[j]
             /\ \A j \in (k + 1)..Len(before) : after[j + 1] = before[j]
             /\ after[k + 1].id \notin ActionIds(old)
             /\ op = "addBelow" =>
                  after[k + 1] = [id |-> after[k + 1].id, objective |-> "jumpToQuestion",
                                  target |-> ""]
             /\ op = "duplicate" => after[k + 1] = [before[k] EXCEPT !.id = after[k + 1].id]
        /\ op = "delete" =>
             /\ Len(after) = Len(before) - 1
             /\ \A j \in 1..(k - 1) : after[j] = before[j]
             /\ \A j \in (k + 1)..Len(before) : after[j - 1] = before[j]
        /\ op = "update" =>
             /\ Len(after) = Len(before)
             /\ \A j \in DOMAIN before : j /= k => after[j] = before[j]

\* Every logic item the component is rendered with has an action, and no
\* two actions share an id.
LogicItemsKeepAnAction ==
  /\ \A l \in DOMAIN editor.logic : editor.logic[l].actions /= <<>>
  /\ \A l1 \in DOMAIN editor.logic, l2 \in DOMAIN editor.logic :
       \A k1 \in DOMAIN editor.logic[l1].actions, k2 \in DOMAIN editor.logic[l2].actions :
         editor.logic[l1].actions[k1].id = editor.logic[l2].actions[k2].id
           => (l1 = l2 /\ k1 = k2)

\* A call of handleActionsChange leaves the array of the prop as it is.
PropNotMutated == editor'.edits /= editor.edits => editor'.logic = editor.logic

\* C19: after any sequence of the operations the menu and the comboboxes
\* offer, the action list passed to updateQuestion is never empty; addBelow
\* and duplicate insert one action with a fresh id right after the chosen
\* index, delete removes the action at the chosen index, and question.logic
\* is not mutated in place.
C19_ActionsEditedOnACopy ==
  /\ [](UpdateMatchesOperation /\ LogicItemsKeepAnAction)
  /\ [][PropNotMutated]_vars

\* An action was added, and a delete then brought a logic item back to one action.
C19_Witness ==
  /\ editor.updated.called
  /\ editor.last.operation = "delete"
  /\ Len(editor.updated.logic[editor.last.logicIdx + 1].actions) = 1
  /\ editor.nextCuid > EditorMounted.nextCuid

\* The value onChangeValue reports for a local state: the value of the
\* option, the values of the options, the input's value, or the empty
\* string for null.
ValueOf(localValue) ==
  IF localValue.kind = "option" THEN Str(localValue.str)
  ELSE IF localValue.kind = "null" THEN Str("")
  ELSE localValue

\* C20: every user event reports its result through exactly one
\* onChangeValue call, whose value matches the local state the event leaves:
\* a select reports the option's value or the toggled selection, a clear
\* reports the empty string with localValue null, and an input change with
\* an empty input reports the empty string with localValue null, whatever
\* the input's type.
C20_OneReportPerEvent ==
  LET c == combobox
  IN  (c.dirty /\ c.last.name /= "none") =>
        /\ Len(c.reported) = 1
        /\ c.reported[Len(c.reported)].value = ValueOf(c.localValue)
        /\ (c.last.name = "clear" \/ (c.last.name = "input" /\ c.last.text = "")) =>
             /\ c.reported[Len(c.reported)].value = Str("")
             /\ c.localValue = Null

====
